---- MODULE Spec2Model ----
(***************************************************************************)
(* State-machine model of src/recorder.js: the Recorder widget (microphone *)
(* recording, live visualiser bars, playback of the last recording).       *)
(*                                                                         *)
(* The browser is single threaded: every handler below runs to its next    *)
(* suspension point atomically.  The suspension points of the source are   *)
(* the await on getUserMedia (toggle), the RecordRTC stopRecording         *)
(* callback, the requestAnimationFrame callback (draw) and the media       *)
(* element's events (time progress, ended).                                *)
(*                                                                         *)
(* Object identities.  Streams are numbered 1, 2, ... in the order they    *)
(* are acquired; 0 stands for null.  The source builds exactly one         *)
(* RecordRTC instance and one AudioContext per acquired stream, so an      *)
(* encoder, an audio context, an analyser and a draw loop are each named   *)
(* by the number of the stream they were constructed on.                   *)
(***************************************************************************)
EXTENDS Integers, Sequences, FiniteSets

\* ---------------------------------------------------------------- bounds
MaxToggles == 4      \* Recorder.toggle() calls explored
MaxPlays   == 2      \* fresh playbacks (object URLs created) explored
ClipLen    == 1      \* playback positions 0..ClipLen
NBars      == 2      \* number of .rec-bar elements in the page
MaxBarCount == 4     \* bar counts 1..MaxBarCount explored for the bar mapping

\* ------------------------------------------------------ program constants
fftSize  == 256      \* analyser.fftSize
MinPx    == 4        \* minimum bar height in px
RangePx  == 48       \* height range in px
MaxByte  == 255      \* largest byte magnitude

\* Heights are kept exactly, in units of 1/HeightUnit px:
\* 4 + (value/255)*48 = (340 + 16*value) / 85.
HeightUnit == MaxByte \div 3

Ids        == 1..MaxToggles
NotFinal   == -1                       \* encoder has produced no blob yet
BlobSizes  == {0, 1}                   \* a capture may legitimately be empty
Magnitudes == {0, MaxByte}             \* magnitudes used by the snapshots
NoBlob     == [id |-> 0, size |-> 0]   \* blob === null / undefined
NoAudio    == [src |-> 0, url |-> 0, paused |-> TRUE, currentTime |-> 0]

VARIABLES
  \* module variables of recorder.js
  state, stream, recordRTC, audioCtx, analyser, animFrame, blob, audioEl,
  bars,
  dataArray,      \* the frequency buffer most recently filled by draw()
  \* platform state
  openStreams,    \* acquired streams whose tracks are still live
  pendingGUM,     \* toggle() calls suspended at `await getUserMedia`
  encStopCalls,   \* per encoder: number of stopRecording calls received
  pendingStop,    \* per encoder: stop callbacks not yet delivered
  encBlob,        \* per encoder: size of its finalized blob, or NotFinal
  pendingFrames,  \* draw loops that have an animation frame scheduled
  liveUrls,       \* object URLs created and not revoked
  \* history
  acquired,       \* number of streams acquired so far
  urlsMade,       \* number of object URLs created so far
  toggles,        \* number of toggle() calls so far
  detaches,       \* number of stopVisualiser() runs so far
  lastCompleted,  \* encoder whose finalization was delivered most recently
  notified,       \* tags passed to Recorder.onStateChange, in order
  notice,         \* alert raised by the last handler
  lastOp,         \* the last handler that ran
  failed          \* a failure was reported in a settled session (see FailedNext)

progVars == <<state, stream, recordRTC, audioCtx, analyser, animFrame, blob,
              audioEl, bars, dataArray>>
envVars  == <<openStreams, pendingGUM, encStopCalls, pendingStop, encBlob,
              pendingFrames, liveUrls>>
histVars == <<acquired, urlsMade, toggles, detaches, lastCompleted, notified,
              notice, lastOp, failed>>
vars     == <<progVars, envVars, histVars>>

\* ---------------------------------------------------------- pure helpers
frequencyBinCount == fftSize \div 2

\* Math.floor(i * dataArray.length / count), bar index i counted from 0
BinOf_RoundUp(i, len, count) == (i * len + count - 1) \div count
BinOf(i, len, count) == (i * len) \div count

\* 4 + (value / 255) * 48, in units of 1/HeightUnit px
BarHeight(value) == MinPx * HeightUnit + (value * RangePx * HeightUnit) \div MaxByte

MinHeight == MinPx * HeightUnit

\* frequency snapshots written by analyser.getByteFrequencyData
Snapshots ==
  { [b \in 0..(frequencyBinCount - 1) |->
        IF b < frequencyBinCount \div 2 THEN lo ELSE hi] :
    lo \in Magnitudes, hi \in Magnitudes }

\* the body of draw()'s for loop
DrawBars(data, count) ==
  [k \in 1..count |-> BarHeight(data[BinOf(k - 1, frequencyBinCount, count)])]

\* bars.forEach(b => b.style.height = '4px')
ResetBars(count) == [k \in 1..count |-> MinHeight]

\* if (window.Recorder.onStateChange) window.Recorder.onStateChange(s)
onStateChange_Twice(log, s) == Append(Append(log, s), s)
onStateChange(log, s) == Append(log, s)

\* if (stream) stream.getTracks().forEach(t => t.stop())
StopTracks_All(open, s) == IF s # 0 THEN open \ {s} ELSE {}
StopTracks(open, s) == IF s # 0 THEN open \ {s} ELSE open

\* !blob || blob.size === 0
NoRecording_NullOnly(b) == b = NoBlob
NoRecording(b) == b = NoBlob \/ b.size = 0

\* recordRTC.getBlob(): the encoder's blob once finalized, nothing before
getBlob(enc, sizes) ==
  IF enc # 0 /\ sizes[enc] # NotFinal THEN [id |-> enc, size |-> sizes[enc]]
  ELSE NoBlob

Count(log, tag) == Cardinality({k \in 1..Len(log) : log[k] = tag})

\* new Uint8Array(analyser.frequencyBinCount): zero filled
EmptyData == [b \in 0..(frequencyBinCount - 1) |-> 0]

\* audioEl && !audioEl.paused
IsPlaying_IgnoresPaused(a) == a # NoAudio
IsPlaying(a) == a # NoAudio /\ ~a.paused

\* audioEl && audioEl.paused && audioEl.currentTime > 0
IsPausedMidPlay(a) == a # NoAudio /\ a.paused /\ a.currentTime > 0

\* A toggle is in flight while a microphone acquisition or an encoder
\* finalization it started has not been delivered yet.
InFlight == pendingGUM > 0 \/ \E e \in Ids : pendingStop[e] > 0

\* Whether a failure has been reported in a settled session: a microphone
\* acquisition was rejected (the catch block ran) with no other toggle in
\* flight, or play() was refused for want of a recording while no toggle
\* was in flight, the state being idle or done.  Once set it stays set.
FailedNext(op) ==
  \/ failed
  \/ /\ op = "reject"
     /\ pendingGUM = 1 /\ \A e \in Ids : pendingStop[e] = 0
     /\ state \in {"idle", "done"}
  \/ /\ op = "norecording"
     /\ ~InFlight /\ state \in {"idle", "done"}

\* -------------------------------------------------------------- initial
InitSession ==
  /\ state = "idle" /\ stream = 0 /\ recordRTC = 0 /\ audioCtx = 0
  /\ analyser = 0 /\ animFrame = 0 /\ blob = NoBlob /\ audioEl = NoAudio
  /\ dataArray = EmptyData
  /\ openStreams = {} /\ pendingGUM = 0
  /\ encStopCalls = [e \in Ids |-> 0]
  /\ pendingStop = [e \in Ids |-> 0]
  /\ encBlob = [e \in Ids |-> NotFinal]
  /\ pendingFrames = {} /\ liveUrls = {}
  /\ acquired = 0 /\ urlsMade = 0 /\ toggles = 0 /\ detaches = 0
  /\ lastCompleted = 0 /\ notified = <<>> /\ notice = "none"
  /\ lastOp = "load" /\ failed = FALSE

Init == InitSession /\ bars = ResetBars(NBars)

\* ------------------------------------------------------ Recorder.toggle
\* The synchronous part of toggle(): in state 'recording' it asks the
\* encoder to stop and returns; otherwise it asks for the microphone and
\* suspends.  A stopRecording call on an encoder that was already asked to
\* stop may or may not yield a further callback (the library decides).
toggle ==
  /\ toggles < MaxToggles
  /\ toggles' = toggles + 1
  /\ lastOp' = "toggle" /\ notice' = "none"
  /\ failed' = FailedNext("toggle")
  /\ IF state = "recording"
       THEN /\ encStopCalls' = [encStopCalls EXCEPT ![recordRTC] = @ + 1]
            /\ \E again \in (IF encStopCalls[recordRTC] > 0 THEN BOOLEAN ELSE {TRUE}) :
                 pendingStop' = IF again
                                  THEN [pendingStop EXCEPT ![recordRTC] = @ + 1]
                                  ELSE pendingStop
            /\ UNCHANGED pendingGUM
       ELSE /\ pendingGUM' = pendingGUM + 1
            /\ UNCHANGED <<encStopCalls, pendingStop>>
  /\ UNCHANGED <<progVars, openStreams, encBlob, pendingFrames, liveUrls,
                 acquired, urlsMade, detaches, lastCompleted, notified>>

\* toggle() resumed after getUserMedia resolved: lines 119, 126-136,
\* startVisualiser and its first synchronous draw() included.
getUserMediaResolve ==
  /\ pendingGUM > 0
  /\ pendingGUM' = pendingGUM - 1
  /\ acquired' = acquired + 1
  /\ stream' = acquired + 1
  /\ openStreams' = openStreams \cup {acquired + 1}
  /\ recordRTC' = stream'                 \* new RecordRTC(stream, ...)
  /\ audioCtx' = stream'                  \* createMediaStreamSource(stream)
  /\ analyser' = audioCtx'
  /\ \E snap \in Snapshots :
       dataArray' = snap /\ bars' = DrawBars(snap, NBars)
  /\ animFrame' = analyser'               \* requestAnimationFrame(draw)
  /\ pendingFrames' = pendingFrames \cup {analyser'}
  /\ state' = "recording"
  /\ notified' = onStateChange(notified, "recording")
  /\ lastOp' = "getUserMediaResolve" /\ notice' = "none"
  /\ failed' = FailedNext("resolve")
  /\ UNCHANGED <<blob, audioEl, encStopCalls, pendingStop, encBlob, liveUrls,
                 urlsMade, toggles, detaches, lastCompleted>>

getUserMediaReject_ResetIdle ==
  /\ pendingGUM > 0
  /\ pendingGUM' = pendingGUM - 1
  /\ state' = "idle"
  /\ lastOp' = "getUserMediaReject" /\ notice' = "MicDenied"
  /\ failed' = FailedNext("reject")
  /\ UNCHANGED <<stream, recordRTC, audioCtx, analyser, animFrame, blob,
                 audioEl, bars, dataArray, openStreams, encStopCalls,
                 pendingStop, encBlob, pendingFrames, liveUrls, acquired,
                 urlsMade, toggles, detaches, lastCompleted, notified>>

\* toggle() resumed after getUserMedia rejected: the catch block, 120-124
getUserMediaReject ==
  /\ pendingGUM > 0
  /\ pendingGUM' = pendingGUM - 1
  /\ lastOp' = "getUserMediaReject" /\ notice' = "MicDenied"
  /\ failed' = FailedNext("reject")
  /\ UNCHANGED <<progVars, openStreams, encStopCalls, pendingStop, encBlob,
                 pendingFrames, liveUrls, acquired, urlsMade, toggles,
                 detaches, lastCompleted, notified>>

\* The callback handed to recordRTC.stopRecording, delivered for encoder e:
\* lines 102-112.  The callback reads the module variable recordRTC, not
\* the encoder that delivers it; when that encoder has no blob yet,
\* blob.size on line 103 throws and the rest of the callback is skipped.
stopRecordingCallback(e) ==
  /\ pendingStop[e] > 0
  /\ pendingStop' = [pendingStop EXCEPT ![e] = @ - 1]
  /\ \E size \in BlobSizes :
       encBlob' = IF encBlob[e] = NotFinal THEN [encBlob EXCEPT ![e] = size]
                  ELSE encBlob
  /\ lastCompleted' = IF encBlob[e] = NotFinal THEN e ELSE lastCompleted
  /\ blob' = getBlob(recordRTC, encBlob')
  /\ notice' = "none"
  /\ failed' = FailedNext("callback")
  /\ IF blob' = NoBlob
       THEN /\ lastOp' = "stopRecordingCallbackThrew"
            /\ UNCHANGED <<state, stream, audioCtx, analyser, animFrame, bars,
                           openStreams, pendingFrames, detaches, notified>>
       ELSE /\ lastOp' = "stopRecordingCallback"
            /\ openStreams' = StopTracks(openStreams, stream)
            /\ stream' = 0
            \* stopVisualiser()
            /\ pendingFrames' = IF animFrame # 0 THEN pendingFrames \ {animFrame}
                                ELSE pendingFrames
            /\ animFrame' = 0 /\ audioCtx' = 0 /\ analyser' = 0
            /\ bars' = ResetBars(NBars)
            /\ detaches' = detaches + 1
            /\ state' = "done"
            /\ notified' = onStateChange(notified, "done")
  /\ UNCHANGED <<recordRTC, audioEl, dataArray, pendingGUM, encStopCalls,
                 liveUrls, acquired, urlsMade, toggles>>

\* draw() with the next frame requested before the analyser is read
draw_SchedulesFirst(l) ==
  /\ l \in pendingFrames
  /\ notice' = "none" /\ failed' = FailedNext("draw")
  /\ animFrame' = l
  /\ pendingFrames' = pendingFrames
  /\ IF analyser = 0
       THEN /\ lastOp' = "drawThrew"
            /\ UNCHANGED <<bars, dataArray>>
       ELSE /\ \E snap \in Snapshots :
                 dataArray' = snap /\ bars' = DrawBars(snap, NBars)
            /\ lastOp' = "draw"
  /\ UNCHANGED <<state, stream, recordRTC, audioCtx, analyser, blob, audioEl,
                 openStreams, pendingGUM, encStopCalls, pendingStop, encBlob,
                 liveUrls, acquired, urlsMade, toggles, detaches,
                 lastCompleted, notified>>

\* The animation frame of draw loop l fires: draw(), lines 48-56.  draw
\* reads the module variable analyser; when it is null the call throws and
\* the loop ends.
draw(l) ==
  /\ l \in pendingFrames
  /\ notice' = "none" /\ failed' = FailedNext("draw")
  /\ IF analyser = 0
       THEN /\ pendingFrames' = pendingFrames \ {l}
            /\ lastOp' = "drawThrew"
            /\ UNCHANGED <<bars, dataArray, animFrame>>
       ELSE /\ \E snap \in Snapshots :
                 dataArray' = snap /\ bars' = DrawBars(snap, NBars)
            /\ animFrame' = l
            /\ pendingFrames' = pendingFrames
            /\ lastOp' = "draw"
  /\ UNCHANGED <<state, stream, recordRTC, audioCtx, analyser, blob, audioEl,
                 openStreams, pendingGUM, encStopCalls, pendingStop, encBlob,
                 liveUrls, acquired, urlsMade, toggles, detaches,
                 lastCompleted, notified>>

\* -------------------------------------------------------- Recorder.play
play ==
  /\ lastOp' = "play"
  /\ IF NoRecording(blob)
       THEN /\ notice' = "NoRecording"
            /\ failed' = FailedNext("norecording")
            /\ UNCHANGED <<audioEl, liveUrls, urlsMade>>
       ELSE /\ notice' = "none"
            /\ failed' = FailedNext("play")
            /\ IF IsPlaying(audioEl)
                 THEN /\ audioEl' = [audioEl EXCEPT !.paused = TRUE]
                      /\ UNCHANGED <<liveUrls, urlsMade>>
                 ELSE IF IsPausedMidPlay(audioEl)
                   THEN /\ audioEl' = [audioEl EXCEPT !.paused = FALSE]
                        /\ UNCHANGED <<liveUrls, urlsMade>>
                   ELSE /\ urlsMade < MaxPlays
                        /\ urlsMade' = urlsMade + 1
                        /\ liveUrls' = liveUrls \cup {urlsMade + 1}
                        /\ audioEl' = [src |-> blob.id, url |-> urlsMade + 1,
                                       paused |-> FALSE, currentTime |-> 0]
  /\ UNCHANGED <<state, stream, recordRTC, audioCtx, analyser, animFrame, blob,
                 bars, dataArray, openStreams, pendingGUM, encStopCalls,
                 pendingStop, encBlob, pendingFrames, acquired, toggles,
                 detaches, lastCompleted, notified>>

\* the media element advances while it plays
timeupdate ==
  /\ audioEl # NoAudio /\ ~audioEl.paused /\ audioEl.currentTime < ClipLen
  /\ audioEl' = [audioEl EXCEPT !.currentTime = @ + 1]
  /\ lastOp' = "timeupdate" /\ notice' = "none"
  /\ failed' = FailedNext("timeupdate")
  /\ UNCHANGED <<state, stream, recordRTC, audioCtx, analyser, animFrame, blob,
                 bars, dataArray, envVars, acquired, urlsMade, toggles,
                 detaches, lastCompleted, notified>>

\* audioEl.onended, lines 163-167: the clip reached its end
onended ==
  /\ audioEl # NoAudio /\ ~audioEl.paused /\ audioEl.currentTime = ClipLen
  /\ liveUrls' = liveUrls \ {audioEl.url}
  /\ audioEl' = NoAudio
  /\ lastOp' = "onended" /\ notice' = "none"
  /\ failed' = FailedNext("onended")
  /\ UNCHANGED <<state, stream, recordRTC, audioCtx, analyser, animFrame, blob,
                 bars, dataArray, openStreams, pendingGUM, encStopCalls,
                 pendingStop, encBlob, pendingFrames, acquired, urlsMade,
                 toggles, detaches, lastCompleted, notified>>

Next ==
  \/ toggle
  \/ getUserMediaResolve
  \/ getUserMediaReject
  \/ \E e \in Ids : stopRecordingCallback(e)
  \/ \E l \in Ids : draw(l)
  \/ play
  \/ timeupdate
  \/ onended

Spec == Init /\ [][Next]_vars

\* ------------------------------------------------- the bar mapping alone
\* The visualiser of one recording on a page with n bars, n in
\* 1..MaxBarCount, fed frequency buffers covering every magnitude 0..255:
\* the page loads, toggle() asks for the microphone, the acquisition
\* resolves (startVisualiser and its first draw), then frames are drawn.
FullSnapshots ==
  { [b \in 0..(frequencyBinCount - 1) |-> (m + slope * b) % (MaxByte + 1)] :
    m \in 0..MaxByte, slope \in {0, 1} }

\* the page right after load, with its n bars at their markup height
BarsInit ==
  /\ InitSession
  /\ \E n \in 1..MaxBarCount : bars = ResetBars(n)

\* toggle() in the idle session: lines 117-119 up to the await
toggleStart ==
  /\ state = "idle" /\ pendingGUM = 0
  /\ toggle

\* toggle() resumed after getUserMedia resolved, lines 126-136, with
\* startVisualiser's first draw() over bars.length bars
getUserMediaResolveBars ==
  /\ pendingGUM > 0
  /\ pendingGUM' = pendingGUM - 1
  /\ acquired' = acquired + 1
  /\ stream' = acquired + 1
  /\ openStreams' = openStreams \cup {acquired + 1}
  /\ recordRTC' = stream'
  /\ audioCtx' = stream'
  /\ analyser' = audioCtx'
  /\ \E snap \in FullSnapshots :
       dataArray' = snap /\ bars' = DrawBars(snap, Len(bars))
  /\ animFrame' = analyser'
  /\ pendingFrames' = pendingFrames \cup {analyser'}
  /\ state' = "recording"
  /\ notified' = onStateChange(notified, "recording")
  /\ lastOp' = "getUserMediaResolve" /\ notice' = "none"
  /\ failed' = FailedNext("resolve")
  /\ UNCHANGED <<blob, audioEl, encStopCalls, pendingStop, encBlob, liveUrls,
                 urlsMade, toggles, detaches, lastCompleted>>

\* the animation frame of draw loop l fires: draw(), lines 48-56, over
\* bars.length bars
drawFrame(l) ==
  /\ l \in pendingFrames
  /\ notice' = "none" /\ failed' = FailedNext("draw")
  /\ IF analyser = 0
       THEN /\ pendingFrames' = pendingFrames \ {l}
            /\ lastOp' = "drawThrew"
            /\ UNCHANGED <<bars, dataArray, animFrame>>
       ELSE /\ \E snap \in FullSnapshots :
                 dataArray' = snap /\ bars' = DrawBars(snap, Len(bars))
            /\ animFrame' = l
            /\ pendingFrames' = pendingFrames
            /\ lastOp' = "draw"
  /\ UNCHANGED <<state, stream, recordRTC, audioCtx, analyser, blob, audioEl,
                 openStreams, pendingGUM, encStopCalls, pendingStop, encBlob,
                 liveUrls, acquired, urlsMade, toggles, detaches,
                 lastCompleted, notified>>

BarsNext ==
  \/ toggleStart
  \/ getUserMediaResolveBars
  \/ \E l \in Ids : drawFrame(l)

SpecBars == BarsInit /\ [][BarsNext]_vars

\* Recorder.getBlob()
RecorderGetBlob == blob

\* ------------------------------------------------------------- claims

\* C1: a toggle() issued while a previous toggle's setup or teardown is in
\* flight is rejected: it starts no acquisition, issues no encoder stop and
\* changes no session variable.
C1_ConcurrentToggleRejected ==
  [][(toggles' = toggles + 1 /\ InFlight)
       => UNCHANGED <<progVars, pendingGUM, encStopCalls, pendingStop>>]_vars

\* C2: at most one acquired microphone stream is open at a time.
C2_AtMostOneOpenStream == Cardinality(openStreams) <= 1

\* C3: whenever the session is idle or done and no toggle is in flight, no
\* acquired stream remains unreleased.
C3_NoStreamLeak ==
  (state \in {"idle", "done"} /\ ~InFlight) => openStreams = {}

\* C4: when a microphone acquisition succeeds, the state becomes
\* 'recording', the encoder and the analyser are started on the stream just
\* acquired, and onStateChange is invoked exactly once, with 'recording'.
C4_StartOnSuccess ==
  [][acquired' # acquired =>
       /\ state' = "recording"
       /\ stream' = acquired' /\ stream' \in openStreams' \ openStreams
       /\ recordRTC' = stream' /\ audioCtx' = stream' /\ analyser' = stream'
       /\ notified' = Append(notified, "recording")]_vars

\* the first start, requested in state idle, has succeeded
C4_Witness ==
  /\ lastOp = "getUserMediaResolve" /\ state = "recording"
  /\ notified = <<"recording">> /\ recordRTC = 1 /\ analyser = 1

\* C5: a failed microphone acquisition leaves the session state, the stream
\* reference, the encoder and the last artifact unchanged, invokes no
\* onStateChange and does not enter 'recording'.
C5_FailureChangesNothing ==
  [][lastOp' = "getUserMediaReject" =>
       UNCHANGED <<state, stream, recordRTC, blob, notified, openStreams>>]_vars

\* an acquisition requested in state done, with an artifact present, failed
C5_Witness ==
  /\ lastOp = "getUserMediaReject" /\ notice = "MicDenied"
  /\ state = "done" /\ blob # NoBlob /\ ~InFlight

\* C6: every stopped recording session yields exactly one stream release,
\* one analyser detach with the bars reset, and one 'done' notification:
\* once the session has settled outside 'recording', the streams released,
\* the detaches and the 'done' notifications each number the recording
\* sessions started, and every bar is at the minimum.
C6_StopExactlyOnce ==
  (state # "recording" /\ ~InFlight) =>
     /\ acquired - Cardinality(openStreams) = Count(notified, "recording")
     /\ detaches = Count(notified, "recording")
     /\ Count(notified, "done") = Count(notified, "recording")
     /\ bars = ResetBars(NBars)

\* C7: getBlob() returns null until a recording has completed, and after a
\* 'done' transition it returns the artifact of the most recently completed
\* recording.
C7_GetBlobIsLatest ==
  /\ Count(notified, "done") = 0 => RecorderGetBlob = NoBlob
  /\ Count(notified, "done") > 0 =>
       RecorderGetBlob = [id |-> lastCompleted, size |-> encBlob[lastCompleted]]

\* C8: once getBlob() has returned an artifact it never returns null again.
C8_ArtifactNeverAbsent ==
  [][RecorderGetBlob # NoBlob => RecorderGetBlob' # NoBlob]_vars

\* C9: onStateChange is invoked exactly once per session transition,
\* carrying the new state, and on no other occasion (in particular not by
\* play() or by the end of playback).
C9_NotifyOncePerTransition ==
  [][/\ state' # state => notified' = Append(notified, state')
     /\ notified' # notified =>
          (state' # state /\ notified' = Append(notified, state'))]_vars

\* C10: play() with no artifact or an empty artifact raises the NoRecording
\* notice and changes neither the playback handle (so neither the playback
\* state), nor the session state, nor the last artifact.
C10_PlayWithoutRecording ==
  [][(lastOp' = "play" /\ (blob = NoBlob \/ blob.size = 0)) =>
       /\ notice' = "NoRecording"
       /\ UNCHANGED <<audioEl, liveUrls, state, blob, stream, recordRTC>>]_vars

\* play() was rejected for an empty re-recording while the previous clip
\* was still playing
C10_Witness ==
  /\ lastOp = "play" /\ notice = "NoRecording"
  /\ blob # NoBlob /\ blob.size = 0
  /\ audioEl # NoAudio /\ ~audioEl.paused

\* play() was rejected before any recording
C10_WitnessNoArtifact ==
  lastOp = "play" /\ notice = "NoRecording" /\ blob = NoBlob

\* stopped: no handle; otherwise paused or playing as the handle says
PlaybackState ==
  IF audioEl = NoAudio THEN "stopped"
  ELSE IF audioEl.paused THEN "paused" ELSE "playing"

\* C11: with a non-empty artifact a play() in stopped yields playing, in
\* playing yields paused, in paused yields playing; the natural end of the
\* clip yields stopped from playing; the playback state changes in no other
\* way.
C11_PlaybackMachine ==
  [][/\ (lastOp' = "play" /\ blob # NoBlob /\ blob.size > 0) =>
          PlaybackState' = (IF PlaybackState = "playing" THEN "paused"
                            ELSE "playing")
     /\ PlaybackState' # PlaybackState =>
          \/ lastOp' = "play" /\ blob # NoBlob /\ blob.size > 0
          \/ /\ lastOp' = "onended"
             /\ PlaybackState = "playing" /\ PlaybackState' = "stopped"
             /\ audioEl.currentTime = ClipLen]_vars

\* a paused clip has just been resumed mid-play
C11_Witness ==
  lastOp = "play" /\ PlaybackState = "playing" /\ audioEl.currentTime > 0

\* the clip played to its end and playback is stopped again
C11_WitnessEnded == lastOp = "onended" /\ PlaybackState = "stopped"

\* C12: whenever a last artifact and an active playback handle both exist,
\* the handle is a handle for that artifact, and a play() that pauses or
\* resumes acts on a handle for that artifact.
C12_HandleIsCurrent ==
  (audioEl # NoAudio /\ blob # NoBlob) => audioEl.src = blob.id

\* C13: each bar i of n reads bin floor(i * binCount / n), which lies in
\* 0..binCount-1; its height is 4 + (m/255)*48 for the magnitude m of that
\* bin, lies in [4, 52] and is non-decreasing in m.
C13_BarMapping ==
  \A k \in DOMAIN bars :
    LET n   == Len(bars)
        bin == ((k - 1) * 128) \div n
        m   == dataArray[bin]
    IN /\ bin \in 0..(frequencyBinCount - 1)
       /\ bars[k] * 255 = HeightUnit * (4 * 255 + m * 48)
       /\ 4 * HeightUnit <= bars[k] /\ bars[k] <= 52 * HeightUnit
       /\ \A m2 \in 0..255 :
            /\ m2 <= m => BarHeight(m2) <= bars[k]
            /\ m2 >= m => BarHeight(m2) >= bars[k]

\* a frame of the running loop drew three bars from a ramp: bins 0, 42 and
\* 85, the last at full height
C13_Witness ==
  /\ lastOp = "draw" /\ Len(bars) = 3
  /\ state = "recording" /\ analyser # 0 /\ animFrame \in pendingFrames
  /\ dataArray[0] = 170 /\ dataArray[42] = 212 /\ dataArray[85] = 255
  /\ bars[3] = 52 * HeightUnit /\ bars[1] < bars[2]

\* C14: a stop callback that runs when the stream is already released
\* completes without error and changes no stream and no session variable.
C14_ReleaseIdempotent ==
  [][((\E e \in Ids : pendingStop'[e] < pendingStop[e]) /\ stream = 0) =>
       /\ lastOp' = "stopRecordingCallback"
       /\ UNCHANGED <<openStreams, stream, state, blob, recordRTC, audioCtx,
                      analyser, animFrame, pendingFrames>>]_vars

\* a second stop callback ran for the only recording, with an unrelated
\* stream still open
C14_Witness ==
  /\ lastOp = "stopRecordingCallback" /\ detaches >= 2
  /\ stream = 0 /\ openStreams # {}

\* C15: once a microphone acquisition has failed or a play() has been
\* refused (in a settled idle or done session), every later successful
\* acquisition brings the session to 'recording' and every later encoder
\* finalization, which follows a toggle made while recording, brings it
\* to 'done'.
C15_UsableAfterFailure ==
  [][failed =>
       /\ acquired' # acquired => state' = "recording"
       /\ (\E e \in Ids : pendingStop'[e] < pendingStop[e]) =>
            state' = "done"]_vars

\* C16: whenever the session is not recording, no draw callback is
\* scheduled and every bar is at 4px.
C16_NoDanglingFrame ==
  state # "recording" =>
     /\ pendingFrames = {}
     /\ \A k \in DOMAIN bars : bars[k] = 4 * HeightUnit

\* C17: at most one object URL is unrevoked at any time.
C17_NoUrlLeak == Cardinality(liveUrls) <= 1

\* C18: play() in playback state paused resumes the existing handle at its
\* position, whatever the position, and creates no new handle.
C18_PausedResumes ==
  [][(lastOp' = "play" /\ blob # NoBlob /\ blob.size > 0
        /\ PlaybackState = "paused") =>
       /\ audioEl' = [audioEl EXCEPT !.paused = FALSE]
       /\ UNCHANGED <<liveUrls, urlsMade>>]_vars

\* C19: the tags passed to onStateChange alternate 'recording', 'done',
\* ..., starting with 'recording', and the state is never idle again after
\* the first successful start.
C19_NotificationsAlternate ==
  /\ \A k \in 1..Len(notified) :
       notified[k] = (IF k % 2 = 1 THEN "recording" ELSE "done")
  /\ Len(notified) > 0 => state # "idle"

\* C20: state 'recording' implies stream, encoder, audio context and a
\* scheduled animation frame are present; state 'idle' or 'done' implies
\* stream, audio context, analyser and animation-frame id are null.
C20_StateCoupling ==
  /\ state = "recording" =>
       /\ stream # 0 /\ recordRTC # 0 /\ audioCtx # 0
       /\ animFrame # 0 /\ animFrame \in pendingFrames
  /\ state \in {"idle", "done"} =>
       stream = 0 /\ audioCtx = 0 /\ analyser = 0 /\ animFrame = 0

\* recording with the frame of an older, never cancelled draw loop as the
\* recorded animation frame
C20_Witness ==
  state = "recording" /\ animFrame # 0 /\ animFrame # analyser

\* settled in done while an older draw loop is still scheduled
C20_WitnessDone == state = "done" /\ pendingFrames # {} /\ ~InFlight

TypeOK ==
  /\ state \in {"idle", "recording", "done"}
  /\ stream \in 0..MaxToggles /\ recordRTC \in 0..MaxToggles
  /\ pendingGUM \in 0..MaxToggles
  /\ Len(notified) <= MaxToggles

====
